---- MODULE Spec2Model ----
(***************************************************************************)
(* favicon-fetcher: the fetchFavicon pipeline (src/index.ts) with its      *)
(* HTML extractors (src/parser.ts), manifest resolver and extractors       *)
(* (src/manifest.ts), HTTP layer (src/fetcher.ts) and metadata enricher    *)
(* (metadata.ts).                                                          *)
(*                                                                         *)
(* Representation.                                                         *)
(*  - A JS string holding free text (a title, a rel attribute) is a        *)
(*    sequence of one-character strings, so that trim(), toLowerCase()     *)
(*    and includes() are computed character by character.                  *)
(*  - A JS string holding a URL or a URL reference is a record             *)
(*    [scheme, host, rooted, segs]: the text as written, split at its      *)
(*    syntactic parts.  scheme = "" is a reference without a scheme,       *)
(*    rooted tells whether the path starts with "/", segs are the path     *)
(*    segments.  `new URL(text, base)` is the operator NewURL, which       *)
(*    fails, lower-cases and resolves as the WHATWG parser does on these   *)
(*    parts; its result (.href) is again such a record, in canonical form. *)
(*  - An attribute that is absent and one that is "" are both falsy in     *)
(*    every test the code makes; both are the empty text.                  *)
(***************************************************************************)
EXTENDS Integers, Sequences, FiniteSets, TLC

VARIABLES
    url,                 \* argument of fetchFavicon: the URL text given by the caller
    options,             \* argument of fetchFavicon: [includeMetadata]
    pc,                  \* position of the invocation in fetchFavicon
    normalizedUrl,       \* index.ts:56
    html,                \* index.ts:68
    finalUrl,            \* index.ts:68
    title,               \* index.ts:71
    htmlTitles,          \* index.ts:82
    htmlDescriptions,    \* index.ts:93
    htmlIcons,           \* index.ts:104
    manifestUrl,         \* index.ts:115
    manifestIcons,       \* index.ts:126
    manifestTitles,      \* index.ts:127
    manifestDescriptions,\* index.ts:128
    icons,               \* index.ts:148
    titles,              \* index.ts:151
    descriptions,        \* index.ts:154
    errors,              \* index.ts:64
    outcome,             \* what the returned promise settled with: a result or a thrown error
    requests,            \* the network calls issued so far, in order of issue
    responses,           \* what the network answered to the page and manifest requests
    tasks,               \* addMetadataToIcons: per icon, its request and the answer to it
    results,             \* addMetadataToIcons: the array Promise.all resolves with
    outOfOrder,          \* some icon request completed before one issued earlier
    DEFAULT_HEADERS,     \* fetcher.ts:7, the one object at module level: shared by all calls
    parked               \* the invocations that are suspended at an await or have settled
                         \* while this one runs: their local state

vars == << url, options, pc, normalizedUrl, html, finalUrl, title, htmlTitles,
           htmlDescriptions, htmlIcons, manifestUrl, manifestIcons, manifestTitles,
           manifestDescriptions, icons, titles, descriptions, errors, outcome,
           requests, responses, tasks, results, outOfOrder, DEFAULT_HEADERS, parked >>

----------------------------------------------------------------------------
(* Bounds of the model *)

\* number of <link> elements of a document
MaxLinks == 2
\* number of entries of a manifest's icons array
MaxManifestIcons == 1
\* number of <link> elements of a document given to the extractors alone
MaxElems == 3
\* number of entries of an icons array given to the extractors alone
MaxEntries == 3

----------------------------------------------------------------------------
(* Free text: sequences of characters *)

IsSpace(c) == c = " "

RECURSIVE TrimStart(_)
TrimStart(s) ==
    IF s = << >> THEN << >>
    ELSE IF IsSpace(Head(s)) THEN TrimStart(Tail(s)) ELSE s

RECURSIVE TrimEnd(_)
TrimEnd(s) ==
    IF s = << >> THEN << >>
    ELSE IF IsSpace(s[Len(s)]) THEN TrimEnd(SubSeq(s, 1, Len(s) - 1)) ELSE s

\* String.prototype.trim
Trim(s) == TrimEnd(TrimStart(s))

LowerChar(c) ==
    CASE c = "I" -> "i"
      [] c = "C" -> "c"
      [] c = "O" -> "o"
      [] c = "N" -> "n"
      [] c = "S" -> "s"
      [] OTHER -> c

\* String.prototype.toLowerCase
ToLowerCase(s) == [i \in 1..Len(s) |-> LowerChar(s[i])]

\* String.prototype.includes
Includes(s, t) ==
    \E i \in 1..(Len(s) - Len(t) + 1) : SubSeq(s, i, i + Len(t) - 1) = t

----------------------------------------------------------------------------
(* URL texts and `new URL` *)

EmptyText == [scheme |-> "", host |-> "", rooted |-> FALSE, segs |-> << >>]

\* truthiness of a JS string
Truthy(text) == text # EmptyText

LowerName(s) ==
    CASE s = "HTTPS" -> "https"
      [] s = "HTTP" -> "http"
      [] s = "Example.COM" -> "example.com"
      [] OTHER -> s

IsSpecialScheme(s) == s \in {"http", "https", "ftp"}

\* a host the URL parser accepts for a special scheme
ValidHost(h) == h # "" /\ h # "exa mple.com"

NoURL == [ok |-> FALSE]

\* the directory of a path: the path without its last segment
Dir(segs) == IF segs = << >> THEN << >> ELSE SubSeq(segs, 1, Len(segs) - 1)

\* new URL(text): parse an absolute URL text; the record carries protocol
\* (without the colon), host and the path segments of pathname
ParseAbsolute(text) ==
    LET scheme == LowerName(text.scheme)
        host == LowerName(text.host)
    IN  IF scheme = "" THEN NoURL
        ELSE IF IsSpecialScheme(scheme) /\ ~ValidHost(host) THEN NoURL
        ELSE [ok |-> TRUE, protocol |-> scheme, host |-> host, segs |-> text.segs]

\* new URL(text, base): base is an href; a text without a scheme is resolved
\* against it
NewURL(text, base) ==
    IF text.scheme # "" THEN ParseAbsolute(text)
    ELSE LET b == ParseAbsolute(base)
         IN  IF ~b.ok THEN NoURL
             ELSE IF text.host # "" THEN
                  \* scheme-relative reference //host/path
                  IF ValidHost(LowerName(text.host))
                  THEN [ok |-> TRUE, protocol |-> b.protocol,
                        host |-> LowerName(text.host), segs |-> text.segs]
                  ELSE NoURL
             ELSE IF text.rooted THEN
                  [ok |-> TRUE, protocol |-> b.protocol, host |-> b.host, segs |-> text.segs]
             ELSE IF text.segs = << >> THEN
                  [ok |-> TRUE, protocol |-> b.protocol, host |-> b.host, segs |-> b.segs]
             ELSE [ok |-> TRUE, protocol |-> b.protocol, host |-> b.host,
                   segs |-> Dir(b.segs) \o text.segs]

\* URL.prototype.href: the canonical text of a parsed URL
Href(u) == [scheme |-> u.protocol, host |-> u.host, rooted |-> TRUE, segs |-> u.segs]

----------------------------------------------------------------------------
(* Completion of a synchronous call: a returned value or a thrown error *)

Return(v) == [threw |-> FALSE, value |-> v, message |-> ""]
Throw(msg) == [threw |-> TRUE, value |-> << >>, message |-> msg]

----------------------------------------------------------------------------
(* HTML documents and the extractors of parser.ts *)

\* A document as cheerio sees it:
\*   parsable            cheerio.load(html) returns (FALSE: it throws, as for a
\*                       body that is not a string)
\*   title               text of the first <title> element ("" when there is none)
\*   ogTitle ...         content of the first matching <meta> element
\*   links               the <link> elements in document order: rel, href, sizes
\*   ogImage             content of <meta property="og:image">

NoText == << >>

\* $('title').first().text().trim(), used by parseTitle and parseTitles
TitleText(doc) == Trim(doc.title)

\* parseTitle returning the text of <title> as written, without trim
parseTitle_untrimmed(doc) ==
    IF ~doc.parsable THEN Return(NoText)
    ELSE Return(doc.title)

\* parser.ts parseTitle
parseTitle(doc) ==
    IF ~doc.parsable THEN Return(NoText)
    ELSE Return(TitleText(doc))

TitleEntry(value, source, property) ==
    [value |-> value, source |-> source, property |-> property]

\* one candidate of parseTitles / parseDescriptions: pushed only when the
\* attribute is truthy and non-empty after trim
Candidate(raw, source, property) ==
    IF raw # NoText /\ Trim(raw) # NoText
    THEN << TitleEntry(Trim(raw), source, property) >>
    ELSE << >>

\* parseTitles collecting og:title before the <title> text
parseTitles_ogFirst(doc) ==
    IF ~doc.parsable THEN Return(<< >>)
    ELSE Return(   Candidate(doc.ogTitle, "opengraph", "og:title")
                \o Candidate(doc.title, "html", "title")
                \o Candidate(doc.twitterTitle, "twitter", "twitter:title"))

\* parser.ts parseTitles
parseTitles(doc) ==
    IF ~doc.parsable THEN Return(<< >>)
    ELSE Return(   Candidate(doc.title, "html", "title")
                \o Candidate(doc.ogTitle, "opengraph", "og:title")
                \o Candidate(doc.twitterTitle, "twitter", "twitter:title"))

\* parseDescriptions: the description extractor; a parse exception is not
\* caught inside it, the caller records it
parseDescriptions(doc) ==
    IF ~doc.parsable THEN Throw("parse error")
    ELSE Return(   Candidate(doc.description, "html", "description")
                \o Candidate(doc.ogDescription, "opengraph", "og:description")
                \o Candidate(doc.twitterDescription, "twitter", "twitter:description"))

\* parser.ts resolveUrl
resolveUrl(relativeUrl, baseUrl) ==
    LET u == NewURL(relativeUrl, baseUrl)
    IN  IF u.ok THEN Href(u) ELSE relativeUrl

\* parser.ts parseIconLinks: iconRelTypes
iconRelTypes ==
    << << "i","c","o","n" >>,
       << "s","h","o","r","t","c","u","t"," ","i","c","o","n" >>,
       << "a","p","p","l","e","-","t","o","u","c","h","-","i","c","o","n" >>,
       << "a","p","p","l","e","-","t","o","u","c","h","-","i","c","o","n",
          "-","p","r","e","c","o","m","p","o","s","e","d" >>,
       << "m","a","s","k","-","i","c","o","n" >> >>

\* parser.ts parseIconLinks: isIconLink
isIconLink(rel) ==
    LET relLower == ToLowerCase(rel)
    IN  \E k \in 1..Len(iconRelTypes) : Includes(relLower, iconRelTypes[k])

Icon(u, type, sizes, source) ==
    [url |-> u, type |-> type, sizes |-> sizes, source |-> source,
     hasMetadata |-> FALSE, metadata |-> [width |-> 0, height |-> 0, format |-> "", size |-> 0]]

\* parser.ts parseIconLinks: the $('link').each loop
RECURSIVE LinkIcons(_, _)
LinkIcons(links, baseUrl) ==
    IF links = << >> THEN << >>
    ELSE LET elem == Head(links)
             here == IF elem.rel # NoText /\ Truthy(elem.href) /\ isIconLink(elem.rel)
                     THEN << Icon(resolveUrl(elem.href, baseUrl), elem.rel, elem.sizes, "html") >>
                     ELSE << >>
         IN  here \o LinkIcons(Tail(links), baseUrl)

OgImageType == << "o","g",":","i","m","a","g","e" >>

\* parseIconLinks adding the og:image candidate without the test of the list
parseIconLinks_ogAlways(doc, baseUrl) ==
    IF ~doc.parsable THEN Return(<< >>)
    ELSE LET found == LinkIcons(doc.links, baseUrl)
         IN  IF Truthy(doc.ogImage)
             THEN Return(found \o << Icon(resolveUrl(doc.ogImage, baseUrl), OgImageType, "", "html") >>)
             ELSE Return(found)

\* parser.ts parseIconLinks
parseIconLinks(doc, baseUrl) ==
    IF ~doc.parsable THEN Return(<< >>)
    ELSE LET found == LinkIcons(doc.links, baseUrl)
         IN  IF Truthy(doc.ogImage) /\ Len(found) = 0
             THEN Return(<< Icon(resolveUrl(doc.ogImage, baseUrl), OgImageType, "", "html") >>)
             ELSE Return(found)

RelManifest == << "m","a","n","i","f","e","s","t" >>

\* $('link[rel="manifest"]'): the matching elements in document order
ManifestLinks(links) == SelectSeq(links, LAMBDA e : e.rel = RelManifest)

\* parser.ts getManifestUrl; EmptyText stands for null
getManifestUrl(doc, baseUrl) ==
    IF ~doc.parsable THEN Return(EmptyText)
    ELSE LET sel == ManifestLinks(doc.links)
             manifestLink == IF sel = << >> THEN EmptyText ELSE Head(sel).href
         IN  IF Truthy(manifestLink)
             THEN Return(resolveUrl(manifestLink, baseUrl))
             ELSE Return(EmptyText)

----------------------------------------------------------------------------
(* HTTP layer: fetcher.ts *)

\* What the network answers to one request:
\*   kind = "response": an HTTP response with its final status and body
\*                      (finalUrl: the URL of the last hop of the redirect chain)
\*   kind = "timeout":  axios error with code ECONNABORTED
\*   kind = "dns":      axios error with code ENOTFOUND / EAI_AGAIN
\*   kind = "network":  any other axios error without a response
Answer(kind, status, body, final) ==
    [kind |-> kind, status |-> status, body |-> body, finalUrl |-> final]

\* fetcher.ts:7-18 DEFAULT_HEADERS as the module is loaded (two of its entries)
BrowserHeaders == [UserAgent |-> "Mozilla/5.0", Accept |-> "text/html"]

\* the headers built without the copy: the override is written into the
\* object of the module
RequestHeaders_noCopy(defaults, userAgent) ==
    LET headers == IF userAgent # "" THEN [defaults EXCEPT !.UserAgent = userAgent]
                   ELSE defaults
    IN  [headers |-> headers, module |-> headers]

\* fetcher.ts:30-33 and 66-69: headers is a copy of DEFAULT_HEADERS, a truthy
\* userAgent replaces its User-Agent; `module` is DEFAULT_HEADERS afterwards
RequestHeaders(defaults, userAgent) ==
    LET headers == IF userAgent # "" THEN [defaults EXCEPT !.UserAgent = userAgent]
                   ELSE defaults
    IN  [headers |-> headers, module |-> defaults]

\* validateStatus accepting client-error responses as well
validateStatus_upTo499(status) == status >= 200 /\ status < 500

\* fetcher.ts validateStatus
validateStatus(status) == status >= 200 /\ status < 400

\* fetcher.ts fetchResource: the buffer of the response, or a thrown error
fetchResource(answer) ==
    IF answer.kind = "response" /\ validateStatus(answer.status)
    THEN Return(answer.body)
    ELSE IF answer.kind = "response" THEN Throw("HTTP status")
    ELSE IF answer.kind = "timeout" THEN Throw("Request timeout")
    ELSE Throw("Failed to fetch resource")

\* fetchHTML reporting every failure as a timeout
fetchHTMLError_alwaysTimeout(answer) == "Request timeout"

\* fetcher.ts fetchHTML, failure side: the message of the thrown error
fetchHTMLError(answer) ==
    IF answer.kind = "response" THEN "HTTP status"
    ELSE IF answer.kind = "timeout" THEN "Request timeout"
    ELSE IF answer.kind = "dns" THEN "Domain not found"
    ELSE "Failed to fetch"

\* fetchHTML: the page and the URL it was finally served from, or a thrown error
fetchHTML(answer) ==
    IF answer.kind = "response" /\ validateStatus(answer.status)
    THEN Return([html |-> answer.body, finalUrl |-> answer.finalUrl])
    ELSE Throw(fetchHTMLError(answer))

----------------------------------------------------------------------------
(* Manifest: manifest.ts *)

\* A JSON field of the manifest: absent, a string or another truthy value
Absent == [t |-> "absent", v |-> NoText]
Str(chars) == [t |-> "string", v |-> chars]
Num == [t |-> "number", v |-> NoText]

\* JS truthiness of a field
FieldTruthy(f) == f.t = "number" \/ (f.t = "string" /\ f.v # NoText)

\* The value JSON.parse returns:
\*   kind "object": {name, short_name, description, icons}
\*   kind "null", "scalar" (number, string, boolean), "array": no such properties
\* icons: [t |-> "absent" | "array" | "string", v |-> the entries]
\* an entry: [kind |-> "object" | "null" | "scalar", src, type, sizes]
NoIcons == [t |-> "absent", v |-> << >>]

ManifestValue(kind, name, short_name, description, iconsField) ==
    [kind |-> kind, name |-> name, short_name |-> short_name,
     description |-> description, icons |-> iconsField]

\* a manifest body: text that JSON.parse accepts (json) with the value it yields
ManifestBody(json, value) == [json |-> json, value |-> value]

JsonNull == ManifestValue("null", Absent, Absent, Absent, NoIcons)

\* manifest.ts fetchManifest: the parsed manifest, or null (JsonNull) on any failure
fetchManifest(answer) ==
    LET buffer == fetchResource(answer)
    IN  IF buffer.threw THEN Return(JsonNull)
        ELSE IF ~buffer.value.json THEN Return(JsonNull)
        ELSE Return(buffer.value.value)

\* `if (manifest)`: null is falsy (as are 0, "" and false, which behave alike)
ManifestTruthy(manifest) == manifest.kind # "null"

ManifestIconType == << "m","a","n","i","f","e","s","t","-","i","c","o","n" >>

\* manifest.ts extractIconsFromManifest: the forEach loop; reading .src of a
\* null entry throws, the catch keeps the icons pushed so far
RECURSIVE EntryIcons(_, _)
EntryIcons(entries, baseUrl) ==
    IF entries = << >> THEN << >>
    ELSE LET icon == Head(entries)
         IN  IF icon.kind = "null" THEN << >>
             ELSE IF icon.kind = "object" /\ Truthy(icon.src)
             THEN << Icon(resolveUrl(icon.src, baseUrl),
                          IF icon.type # NoText THEN icon.type ELSE ManifestIconType,
                          icon.sizes, "manifest") >>
                  \o EntryIcons(Tail(entries), baseUrl)
             ELSE EntryIcons(Tail(entries), baseUrl)

\* manifest.ts extractIconsFromManifest
extractIconsFromManifest(manifest, baseUrl) ==
    IF ~ManifestTruthy(manifest) \/ manifest.icons.t # "array"
    THEN Return(<< >>)
    ELSE Return(EntryIcons(manifest.icons.v, baseUrl))

\* a candidate taken from any truthy field, without the typeof test
ManifestCandidate_noTypeTest(f, property) ==
    IF FieldTruthy(f)
    THEN << TitleEntry(Trim(f.v), "manifest", property) >>
    ELSE << >>

\* one title / description candidate of the manifest
ManifestCandidate(f, property) ==
    IF FieldTruthy(f) /\ f.t = "string" /\ Trim(f.v) # NoText
    THEN << TitleEntry(Trim(f.v), "manifest", property) >>
    ELSE << >>

\* manifest.ts extractTitlesFromManifest
extractTitlesFromManifest(manifest) ==
    IF ~ManifestTruthy(manifest) THEN Return(<< >>)
    ELSE Return(   ManifestCandidate(manifest.name, "name")
                \o ManifestCandidate(manifest.short_name, "short_name"))

\* manifest.ts extractDescriptionsFromManifest
extractDescriptionsFromManifest(manifest) ==
    IF ~ManifestTruthy(manifest) THEN Return(<< >>)
    ELSE Return(ManifestCandidate(manifest.description, "description"))

----------------------------------------------------------------------------
(* Metadata: metadata.ts *)

\* The bytes of an image as image-size sees them:
\*   decodable  sizeOf(buffer) returns (FALSE: it throws, corrupt or unknown format)
\*   width, height, format: what it reports (0 / "" is a falsy report)
\*   length     buffer.length
Image(decodable, width, height, format, length) ==
    [decodable |-> decodable, width |-> width, height |-> height,
     format |-> format, length |-> length]

NoMetadata == [ok |-> FALSE, width |-> 0, height |-> 0, format |-> "", size |-> 0]

\* getImageMetadata without the test of the reported dimensions
getImageMetadata_noGuard(answer) ==
    LET buffer == fetchResource(answer)
    IN  IF buffer.threw THEN NoMetadata
        ELSE IF ~buffer.value.decodable THEN NoMetadata
        ELSE LET dimensions == buffer.value
             IN  [ok |-> TRUE, width |-> dimensions.width, height |-> dimensions.height,
                  format |-> dimensions.format, size |-> dimensions.length]

\* metadata.ts getImageMetadata: the metadata, or null (NoMetadata)
getImageMetadata(answer) ==
    LET buffer == fetchResource(answer)
    IN  IF buffer.threw THEN NoMetadata
        ELSE IF ~buffer.value.decodable THEN NoMetadata
        ELSE LET dimensions == buffer.value
             IN  IF dimensions.width = 0 \/ dimensions.height = 0 \/ dimensions.format = ""
                 THEN NoMetadata
                 ELSE [ok |-> TRUE, width |-> dimensions.width, height |-> dimensions.height,
                       format |-> dimensions.format, size |-> dimensions.length]

\* metadata.ts addMetadataToIcons: the mapper applied to one icon when its
\* fetch has settled
EnrichIcon(icon, answer) ==
    LET metadata == getImageMetadata(answer)
    IN  IF metadata.ok
        THEN [icon EXCEPT !.hasMetadata = TRUE,
                          !.metadata = [width |-> metadata.width, height |-> metadata.height,
                                        format |-> metadata.format, size |-> metadata.size]]
        ELSE icon

----------------------------------------------------------------------------
(* Inputs: what the caller passes and what the network serves *)

SeqsUpTo(S, n) == UNION { [1..k -> S] : k \in 0..n }

UrlText(scheme, host, rooted, segs) ==
    [scheme |-> scheme, host |-> host, rooted |-> rooted, segs |-> segs]

\* "not-a-valid-url", "ftp://example.com/f", "HTTPS://Example.COM/x/page"
InputUrls ==
    { UrlText("", "", FALSE, << "not-a-valid-url" >>),
      UrlText("ftp", "example.com", TRUE, << "f" >>),
      UrlText("HTTPS", "Example.COM", TRUE, << "x", "page" >>) }

\* "https://www.example.org/y/": where a redirect of the page ends
RedirectTarget == UrlText("https", "www.example.org", TRUE, << "y", "" >>)

RelIcon == << "i","c","o","n" >>
RelShortcutIcon == << "S","h","o","r","t","c","u","t"," ","I","c","o","n" >>
RelNext == << "n","e","x","t" >>

Link(rel, href, sizes) == [rel |-> rel, href |-> href, sizes |-> sizes]

\* <link rel="icon" href="/a.png" sizes="16x16">, <link rel="Shortcut Icon" href="b.ico">,
\* <link rel="manifest" href="/manifest.json">, <link rel="next" href="/n">
LinkSet ==
    { Link(RelIcon, UrlText("", "", TRUE, << "a.png" >>), "16x16"),
      Link(RelShortcutIcon, UrlText("", "", FALSE, << "b.ico" >>), ""),
      Link(RelManifest, UrlText("", "", TRUE, << "manifest.json" >>), ""),
      Link(RelNext, UrlText("", "", TRUE, << "n" >>), "") }

Doc(parsable, t, ogt, twt, d, ogd, twd, links, ogImage) ==
    [parsable |-> parsable, title |-> t, ogTitle |-> ogt, twitterTitle |-> twt,
     description |-> d, ogDescription |-> ogd, twitterDescription |-> twd,
     links |-> links, ogImage |-> ogImage]

\* a page without texts and og:image, and one with them (title " T ",
\* og:title "O", a blank twitter:title, description "D", twitter:description "W ")
BareDoc(links) ==
    Doc(TRUE, NoText, NoText, NoText, NoText, NoText, NoText, links, EmptyText)
RichDoc(links) ==
    Doc(TRUE, << " ", "T", " " >>, << "O" >>, << " " >>, << "D" >>, NoText, << "W", " " >>,
        links, UrlText("", "", TRUE, << "og.png" >>))

\* a body cheerio.load throws on
UnparsableDoc ==
    Doc(FALSE, NoText, NoText, NoText, NoText, NoText, NoText, << >>, EmptyText)

\* "//exa mple.com/u.png": a reference `new URL` throws on with any base
\* (a space is not allowed in a host)
BadHostRef == UrlText("", "exa mple.com", TRUE, << "u.png" >>)

\* <link rel="icon" href="//exa mple.com/u.png"> alone, and
\* <meta property="og:image" content="//exa mple.com/u.png"> alone
BadHrefDoc == BareDoc(<< Link(RelIcon, BadHostRef, "") >>)
BadOgImageDoc ==
    Doc(TRUE, NoText, NoText, NoText, NoText, NoText, NoText, << >>, BadHostRef)

\* <link rel="icon" href="/a.png" sizes="16x16"> and
\* <link rel="manifest" href="https://cdn.example.net/app/manifest.json">:
\* a page whose manifest is on another host and path
CrossHostDoc ==
    BareDoc(<< Link(RelIcon, UrlText("", "", TRUE, << "a.png" >>), "16x16"),
               Link(RelManifest,
                    UrlText("https", "cdn.example.net", TRUE, << "app", "manifest.json" >>),
                    "") >>)

\* the pages a server may send: bare pages with up to MaxLinks links, pages
\* with texts and og:image with one link fewer, the unparsable body, the two
\* pages with a reference that cannot be resolved and the page with its
\* manifest on another host
Docs ==
    { BareDoc(l) : l \in SeqsUpTo(LinkSet, MaxLinks) }
    \cup { RichDoc(l) : l \in SeqsUpTo(LinkSet, MaxLinks - 1) }
    \cup { UnparsableDoc, BadHrefDoc, BadOgImageDoc, CrossHostDoc }

NoDoc == UnparsableDoc

\* the answers to the request for the page
HtmlAnswers(requested) ==
    { Answer("response", 200, d, f) : d \in Docs, f \in {requested, RedirectTarget} }
    \cup { Answer("response", 404, NoDoc, requested),
           Answer("timeout", 0, NoDoc, requested),
           Answer("dns", 0, NoDoc, requested),
           Answer("network", 0, NoDoc, requested) }

MimePng == << "p","n","g" >>

Entry(kind, src, type, sizes) == [kind |-> kind, src |-> src, type |-> type, sizes |-> sizes]

\* {"src": "/a.png", "type": "png", "sizes": "192x192"} (the URL of the icon
\* link of the page), {"src": "m2.png"}, null
EntrySet ==
    { Entry("object", UrlText("", "", TRUE, << "a.png" >>), MimePng, "192x192"),
      Entry("object", UrlText("", "", FALSE, << "m2.png" >>), NoText, ""),
      Entry("null", EmptyText, NoText, "") }

IconsArray(entries) == [t |-> "array", v |-> entries]

\* the manifests a server may send; the first has name " App", short_name "O"
\* (the og:title of the page) and description "D" (the description of the page)
ManifestValues ==
    { ManifestValue("object", Str(<< " ", "A", "p", "p" >>), Str(<< "O" >>), Str(<< "D" >>),
                    IconsArray(e)) : e \in SeqsUpTo(EntrySet, MaxManifestIcons) }
    \cup { JsonNull,
           ManifestValue("scalar", Absent, Absent, Absent, NoIcons),
           ManifestValue("array", Absent, Absent, Absent, NoIcons),
           ManifestValue("object", Absent, Absent, Absent, NoIcons),
           ManifestValue("object", Num, Str(<< " " >>), Num, [t |-> "string", v |-> << >>]),
           ManifestValue("object", Absent, Absent, Absent,
                         IconsArray(<< Entry("object", BadHostRef, NoText, "") >>)) }

NotJson == ManifestBody(FALSE, JsonNull)

\* the answers to the request for the manifest
ManifestAnswers ==
    { Answer("response", 200, ManifestBody(TRUE, m), EmptyText) : m \in ManifestValues }
    \cup { Answer("response", 200, NotJson, EmptyText),
           Answer("response", 404, NotJson, EmptyText),
           Answer("response", 404,
                  ManifestBody(TRUE, ManifestValue("object", Str(<< "E" >>), Absent, Absent,
                      IconsArray(<< Entry("object", UrlText("", "", TRUE, << "e.png" >>),
                                          NoText, "") >>))),
                  EmptyText),
           Answer("timeout", 0, NotJson, EmptyText),
           Answer("network", 0, NotJson, EmptyText) }

\* the answers to the request for an icon: a 16x16 png of 3 bytes, a timeout,
\* bytes image-size throws on, an image reported with width 0
IconAnswers ==
    { Answer("response", 200, Image(TRUE, 16, 16, "png", 3), EmptyText),
      Answer("timeout", 0, Image(FALSE, 0, 0, "", 0), EmptyText),
      Answer("response", 200, Image(FALSE, 0, 0, "", 5), EmptyText),
      Answer("response", 200, Image(TRUE, 0, 16, "png", 4), EmptyText) }

NoAnswer == Answer("none", 0, << >>, EmptyText)

----------------------------------------------------------------------------
(* fetchFavicon: index.ts *)

\* validateUrl without the protocol test
validateUrl_anyProtocol(text) ==
    LET parsedUrl == ParseAbsolute(text)
    IN  IF ~parsedUrl.ok THEN Throw("Invalid URL")
        ELSE Return(Href(parsedUrl))

\* index.ts validateUrl: the normalized href, or a thrown error
validateUrl(text) ==
    LET parsedUrl == ParseAbsolute(text)
    IN  IF ~parsedUrl.ok THEN Throw("Invalid URL")
        ELSE IF parsedUrl.protocol # "http" /\ parsedUrl.protocol # "https"
        THEN Throw("Invalid URL")
        ELSE Return(Href(parsedUrl))

\* getDefaultFaviconUrl resolving "favicon.ico" against the page: the icon
\* next to the page instead of at the root of the host
getDefaultFaviconUrl_besidePage(baseUrl) ==
    LET parsedUrl == NewURL(UrlText("", "", FALSE, << "favicon.ico" >>), baseUrl)
    IN  IF parsedUrl.ok THEN Href(parsedUrl) ELSE EmptyText

\* getDefaultFaviconUrl parsing "/favicon.ico" without a base: always null
getDefaultFaviconUrl_noBase(baseUrl) ==
    LET parsedUrl == ParseAbsolute(UrlText("", "", TRUE, << "favicon.ico" >>))
    IN  IF parsedUrl.ok
        THEN UrlText(parsedUrl.protocol, parsedUrl.host, TRUE, << "favicon.ico" >>)
        ELSE EmptyText

\* index.ts getDefaultFaviconUrl: protocol//host/favicon.ico, or null (EmptyText)
getDefaultFaviconUrl(baseUrl) ==
    LET parsedUrl == ParseAbsolute(baseUrl)
    IN  IF parsedUrl.ok
        THEN UrlText(parsedUrl.protocol, parsedUrl.host, TRUE, << "favicon.ico" >>)
        ELSE EmptyText

DefaultType == << "d","e","f","a","u","l","t" >>

\* an entry of the errors list (url = EmptyText: no url field)
FetchError(step, message, u) == [step |-> step, message |-> message, url |-> u]

\* the value of a call made inside try { x = call } catch { errors.push(...) }
ValueOr(call, initial) == IF call.threw THEN initial ELSE call.value
Caught(call, step, u) ==
    IF call.threw THEN << FetchError(step, call.message, u) >> ELSE << >>

NoResult ==
    [url |-> EmptyText, title |-> NoText, titles |-> << >>, descriptions |-> << >>,
     icons |-> << >>, hasErrors |-> FALSE, errors |-> << >>]

Pending == [kind |-> "pending", result |-> NoResult, message |-> "", cause |-> "", url |-> EmptyText]
Returned(r) == [kind |-> "returned", result |-> r, message |-> "", cause |-> "", url |-> EmptyText]
Rejected(message, cause, u) ==
    [kind |-> "rejected", result |-> NoResult, message |-> message, cause |-> cause, url |-> u]

Request(kind, u, headers) == [kind |-> kind, url |-> u, headers |-> headers]

\* the options a caller passes: includeMetadata (false when omitted,
\* index.ts:50) and userAgent ("" when omitted)
Options == [includeMetadata : BOOLEAN, userAgent : {""}]

NoFrames == << >>

Init ==
    /\ url \in InputUrls
    /\ options \in Options
    /\ pc = "Start"
    /\ normalizedUrl = EmptyText
    /\ html = NoDoc
    /\ finalUrl = EmptyText
    /\ title = NoText
    /\ htmlTitles = << >>
    /\ htmlDescriptions = << >>
    /\ htmlIcons = << >>
    /\ manifestUrl = EmptyText
    /\ manifestIcons = << >>
    /\ manifestTitles = << >>
    /\ manifestDescriptions = << >>
    /\ icons = << >>
    /\ titles = << >>
    /\ descriptions = << >>
    /\ errors = << >>
    /\ outcome = Pending
    /\ requests = << >>
    /\ responses = << >>
    /\ tasks = << >>
    /\ results = << >>
    /\ outOfOrder = FALSE
    /\ DEFAULT_HEADERS = BrowserHeaders
    /\ parked = NoFrames

inputVars == << url, options, parked >>
netVars == << requests, DEFAULT_HEADERS >>
htmlVars == << title, htmlTitles, htmlDescriptions, htmlIcons, manifestUrl >>
manifestVars == << manifestIcons, manifestTitles, manifestDescriptions >>
mergeVars == << icons, titles, descriptions >>
enrichVars == << tasks, results, outOfOrder >>

\* index.ts:56-68: validateUrl is called outside the try block; when it
\* returns, fetchHTML issues the request for the page
Start ==
    /\ pc = "Start"
    /\ LET v == validateUrl(url)
       IN  IF v.threw
           THEN /\ pc' = "Rejected"
                /\ outcome' = Rejected(v.message, "", url)
                /\ UNCHANGED << normalizedUrl, netVars >>
           ELSE LET h == RequestHeaders(DEFAULT_HEADERS, options.userAgent)
                IN  /\ pc' = "AwaitHtml"
                    /\ normalizedUrl' = v.value
                    /\ requests' = Append(requests, Request("html", v.value, h.headers))
                    /\ DEFAULT_HEADERS' = h.module
                    /\ UNCHANGED outcome
    /\ UNCHANGED << inputVars, html, finalUrl, htmlVars, manifestVars, mergeVars,
                    errors, responses, enrichVars >>

\* index.ts:68 and 197-200: the page request settles, with one of the
\* answers the network may give
HtmlSettlesWith(answers) ==
    /\ pc = "AwaitHtml"
    /\ \E answer \in answers :
         LET page == fetchHTML(answer)
         IN  /\ responses' = Append(responses, [answer EXCEPT !.body = << >>])
             /\ IF page.threw
                THEN /\ pc' = "Rejected"
                     /\ outcome' = Rejected("Failed to fetch favicon", page.message, url)
                     /\ UNCHANGED << html, finalUrl >>
                ELSE /\ pc' = "HtmlFetched"
                     /\ html' = page.value.html
                     /\ finalUrl' = page.value.finalUrl
                     /\ UNCHANGED outcome
    /\ UNCHANGED << inputVars, normalizedUrl, htmlVars, manifestVars, mergeVars,
                    errors, netVars, enrichVars >>

HtmlSettles == HtmlSettlesWith(HtmlAnswers(normalizedUrl))

\* index.ts:70-123: the five HTML extractors, each in its own try/catch
ExtractHtml ==
    /\ pc = "HtmlFetched"
    /\ LET t == parseTitle(html)
           ts == parseTitles(html)
           ds == parseDescriptions(html)
           is == parseIconLinks(html, finalUrl)
           m == getManifestUrl(html, finalUrl)
       IN  /\ title' = ValueOr(t, NoText)
           /\ htmlTitles' = ValueOr(ts, << >>)
           /\ htmlDescriptions' = ValueOr(ds, << >>)
           /\ htmlIcons' = ValueOr(is, << >>)
           /\ manifestUrl' = ValueOr(m, EmptyText)
           /\ errors' = errors \o Caught(t, "parse_title", EmptyText)
                               \o Caught(ts, "parse_titles", EmptyText)
                               \o Caught(ds, "parse_descriptions", EmptyText)
                               \o Caught(is, "parse_icon_links", EmptyText)
                               \o Caught(m, "get_manifest_url", EmptyText)
    /\ pc' = "Extracted"
    /\ UNCHANGED << inputVars, normalizedUrl, html, finalUrl, manifestVars, mergeVars,
                    outcome, netVars, responses, enrichVars >>

\* a manifest step that requests /manifest.json of the page's host when the
\* page links no manifest
RequestManifest_guess ==
    /\ pc = "Extracted"
    /\ LET h == RequestHeaders(DEFAULT_HEADERS, options.userAgent)
           guess == resolveUrl(UrlText("", "", TRUE, << "manifest.json" >>), finalUrl)
       IN  /\ requests' = Append(requests,
                                 Request("manifest",
                                         IF Truthy(manifestUrl) THEN manifestUrl ELSE guess,
                                         h.headers))
           /\ DEFAULT_HEADERS' = h.module
           /\ pc' = "AwaitManifest"
    /\ UNCHANGED << inputVars, normalizedUrl, html, finalUrl, htmlVars, manifestVars,
                    mergeVars, errors, outcome, responses, enrichVars >>

\* index.ts:129-131: with a manifest URL, fetchManifest issues its request
RequestManifest ==
    /\ pc = "Extracted"
    /\ IF Truthy(manifestUrl)
       THEN LET h == RequestHeaders(DEFAULT_HEADERS, options.userAgent)
            IN  /\ requests' = Append(requests, Request("manifest", manifestUrl, h.headers))
                /\ DEFAULT_HEADERS' = h.module
                /\ pc' = "AwaitManifest"
       ELSE /\ pc' = "ManifestResolved"
            /\ UNCHANGED netVars
    /\ UNCHANGED << inputVars, normalizedUrl, html, finalUrl, htmlVars, manifestVars,
                    mergeVars, errors, outcome, responses, enrichVars >>

\* the manifest step without fault tolerance: a failed request or an
\* unparsable body escapes to the outer catch of fetchFavicon
ManifestSettles_fatal ==
    /\ pc = "AwaitManifest"
    /\ \E answer \in ManifestAnswers :
         LET buffer == fetchResource(answer)
             failed == buffer.threw \/ ~buffer.value.json
             value == IF failed THEN JsonNull ELSE buffer.value.value
             run == ~failed /\ ManifestTruthy(value)
         IN  /\ responses' = Append(responses, answer)
             /\ manifestIcons' =
                    IF run THEN extractIconsFromManifest(value, finalUrl).value ELSE << >>
             /\ manifestTitles' = IF run THEN extractTitlesFromManifest(value).value ELSE << >>
             /\ manifestDescriptions' =
                    IF run THEN extractDescriptionsFromManifest(value).value ELSE << >>
             /\ pc' = IF failed THEN "Rejected" ELSE "ManifestResolved"
             /\ outcome' = IF failed
                           THEN Rejected("Failed to fetch favicon", "manifest", url)
                           ELSE outcome
    /\ UNCHANGED << inputVars, normalizedUrl, html, finalUrl, htmlVars, mergeVars,
                    errors, netVars, enrichVars >>

\* the manifest step resolving the icons of the manifest against the URL of
\* the manifest instead of that of the page
ManifestSettles_manifestBase ==
    /\ pc = "AwaitManifest"
    /\ \E answer \in ManifestAnswers :
         LET fm == fetchManifest(answer)
             run == ~fm.threw /\ ManifestTruthy(fm.value)
             is == IF run THEN extractIconsFromManifest(fm.value, manifestUrl)
                   ELSE Return(<< >>)
             ts == IF run /\ ~is.threw THEN extractTitlesFromManifest(fm.value)
                   ELSE Return(<< >>)
             ds == IF run /\ ~is.threw /\ ~ts.threw
                   THEN extractDescriptionsFromManifest(fm.value) ELSE Return(<< >>)
         IN  /\ responses' = Append(responses, answer)
             /\ manifestIcons' = ValueOr(is, << >>)
             /\ manifestTitles' = ValueOr(ts, << >>)
             /\ manifestDescriptions' = ValueOr(ds, << >>)
             /\ errors' = errors \o Caught(fm, "fetch_manifest", manifestUrl)
                                 \o Caught(is, "fetch_manifest", manifestUrl)
                                 \o Caught(ts, "fetch_manifest", manifestUrl)
                                 \o Caught(ds, "fetch_manifest", manifestUrl)
    /\ pc' = "ManifestResolved"
    /\ UNCHANGED << inputVars, normalizedUrl, html, finalUrl, htmlVars, mergeVars,
                    outcome, netVars, enrichVars >>

\* index.ts:131-144: the manifest request settles; the three extractors run
\* in turn inside one try block, so what was assigned before a throw stays
ManifestSettlesWith(answers) ==
    /\ pc = "AwaitManifest"
    /\ \E answer \in answers :
         LET fm == fetchManifest(answer)
             run == ~fm.threw /\ ManifestTruthy(fm.value)
             is == IF run THEN extractIconsFromManifest(fm.value, finalUrl) ELSE Return(<< >>)
             ts == IF run /\ ~is.threw THEN extractTitlesFromManifest(fm.value)
                   ELSE Return(<< >>)
             ds == IF run /\ ~is.threw /\ ~ts.threw
                   THEN extractDescriptionsFromManifest(fm.value) ELSE Return(<< >>)
         IN  /\ responses' = Append(responses, answer)
             /\ manifestIcons' = ValueOr(is, << >>)
             /\ manifestTitles' = ValueOr(ts, << >>)
             /\ manifestDescriptions' = ValueOr(ds, << >>)
             /\ errors' = errors \o Caught(fm, "fetch_manifest", manifestUrl)
                                 \o Caught(is, "fetch_manifest", manifestUrl)
                                 \o Caught(ts, "fetch_manifest", manifestUrl)
                                 \o Caught(ds, "fetch_manifest", manifestUrl)
    /\ pc' = "ManifestResolved"
    /\ UNCHANGED << inputVars, normalizedUrl, html, finalUrl, htmlVars, mergeVars,
                    outcome, netVars, enrichVars >>

ManifestSettles == ManifestSettlesWith(ManifestAnswers)

\* the default icon appended to whatever was found
WithFallback_always(merged, baseUrl) ==
    LET defaultFaviconUrl == getDefaultFaviconUrl(baseUrl)
    IN  IF Truthy(defaultFaviconUrl)
        THEN merged \o << Icon(defaultFaviconUrl, DefaultType, "", "default") >>
        ELSE merged

\* index.ts:156-168: the default icon when the merged list is empty
WithFallback(merged, baseUrl) ==
    IF Len(merged) = 0
    THEN LET defaultFaviconUrl == getDefaultFaviconUrl(baseUrl)
         IN  IF Truthy(defaultFaviconUrl)
             THEN << Icon(defaultFaviconUrl, DefaultType, "", "default") >>
             ELSE merged
    ELSE merged

\* the merge with the manifest icons first
MergeIcons_manifestFirst(fromHtml, fromManifest) == fromManifest \o fromHtml

\* the merge dropping a manifest icon whose URL an icon of the page has
MergeIcons_dedup(fromHtml, fromManifest) ==
    fromHtml \o SelectSeq(fromManifest,
                          LAMBDA icon : \A k \in 1..Len(fromHtml) : fromHtml[k].url # icon.url)

\* index.ts:148: [...htmlIcons, ...manifestIcons]
MergeIcons(fromHtml, fromManifest) == fromHtml \o fromManifest

\* index.ts:147-168: merge and fallback
Merge ==
    /\ pc = "ManifestResolved"
    /\ icons' = WithFallback(MergeIcons(htmlIcons, manifestIcons), finalUrl)
    /\ titles' = htmlTitles \o manifestTitles
    /\ descriptions' = htmlDescriptions \o manifestDescriptions
    /\ pc' = "Merged"
    /\ UNCHANGED << inputVars, normalizedUrl, html, finalUrl, htmlVars, manifestVars,
                    errors, outcome, netVars, responses, enrichVars >>

\* the guard of the enrichment step without the test of the option
WantsMetadata_always == Len(icons) > 0

\* index.ts:171: the guard of the enrichment step
WantsMetadata == options.includeMetadata /\ Len(icons) > 0

Task(state, answer) == [state |-> state, answer |-> answer]

\* a slot of the Promise.all array that is not filled yet
NoIcon == Icon(EmptyText, NoText, "", "none")

\* a loop that fetches one icon after the other: only the request of the first
\* icon is issued when enrichment starts
StartEnrich_firstOnly ==
    /\ pc = "Merged"
    /\ WantsMetadata
    /\ tasks' = [i \in 1..Len(icons) |-> Task("inflight", NoAnswer)]
    /\ results' = [i \in 1..Len(icons) |-> NoIcon]
    /\ LET h == RequestHeaders(DEFAULT_HEADERS, options.userAgent)
       IN  /\ requests' = requests \o << Request("icon", icons[1].url, h.headers) >>
           /\ DEFAULT_HEADERS' = h.module
    /\ pc' = "Enriching"
    /\ UNCHANGED << inputVars, normalizedUrl, html, finalUrl, htmlVars, manifestVars,
                    mergeVars, errors, outcome, responses, outOfOrder >>

\* index.ts:173, metadata.ts addMetadataToIcons: icons.map starts the mapper of
\* every icon, each runs up to its fetch; all requests are issued in this step
StartEnrich ==
    /\ pc = "Merged"
    /\ WantsMetadata
    /\ tasks' = [i \in 1..Len(icons) |-> Task("inflight", NoAnswer)]
    /\ results' = [i \in 1..Len(icons) |-> NoIcon]
    /\ LET h == RequestHeaders(DEFAULT_HEADERS, options.userAgent)
       IN  /\ requests' = requests \o [i \in 1..Len(icons) |->
                                           Request("icon", icons[i].url, h.headers)]
           /\ DEFAULT_HEADERS' = h.module
    /\ pc' = "Enriching"
    /\ UNCHANGED << inputVars, normalizedUrl, html, finalUrl, htmlVars, manifestVars,
                    mergeVars, errors, outcome, responses, outOfOrder >>

\* Promise.all storing each value at the next free position, in order of completion
Store_push(array, i, value) ==
    LET free == { k \in 1..Len(array) : array[k] = NoIcon }
        first == CHOOSE k \in free : \A m \in free : k <= m
    IN  [array EXCEPT ![first] = value]

\* metadata.ts:48 Promise.all: the value of the i-th promise is stored at
\* position i of the array it resolves with
Store(array, i, value) == [array EXCEPT ![i] = value]

\* metadata.ts:49-60 and getImageMetadata: the request of icon i settles, in
\* any order with the others, and the mapper of icon i runs to its end
IconSettlesWith(i, answers) ==
    /\ pc = "Enriching"
    /\ i \in 1..Len(tasks)
    /\ tasks[i].state = "inflight"
    /\ \E answer \in answers :
         /\ tasks' = [tasks EXCEPT ![i] = Task("settled", answer)]
         /\ results' = Store(results, i, EnrichIcon(icons[i], answer))
    /\ outOfOrder' = (outOfOrder \/ \E j \in 1..(i - 1) : tasks[j].state = "inflight")
    /\ UNCHANGED << inputVars, pc, normalizedUrl, html, finalUrl, htmlVars, manifestVars,
                    mergeVars, errors, outcome, netVars, responses >>

IconSettles(i) == IconSettlesWith(i, IconAnswers)

\* metadata.ts addMetadataToIcons: resolves with the array of Promise.all
addMetadataToIcons(iconsWithMetadata) == Return(iconsWithMetadata)

\* an await that ends only when every icon fetch has settled with a usable
\* image: after a failed fetch it never ends
JoinEnrich_needsSuccess ==
    /\ pc = "Enriching"
    /\ \A i \in 1..Len(tasks) : tasks[i].state = "settled" /\ results[i].hasMetadata
    /\ LET r == addMetadataToIcons(results)
       IN  /\ icons' = ValueOr(r, icons)
           /\ errors' = errors \o Caught(r, "add_metadata", EmptyText)
    /\ pc' = "Enriched"
    /\ UNCHANGED << inputVars, normalizedUrl, html, finalUrl, htmlVars, manifestVars,
                    titles, descriptions, outcome, netVars, responses, enrichVars >>

\* index.ts:172-179: the await of addMetadataToIcons returns when every
\* mapper has finished
JoinEnrich ==
    /\ pc = "Enriching"
    /\ \A i \in 1..Len(tasks) : tasks[i].state = "settled"
    /\ LET r == addMetadataToIcons(results)
       IN  /\ icons' = ValueOr(r, icons)
           /\ errors' = errors \o Caught(r, "add_metadata", EmptyText)
    /\ pc' = "Enriched"
    /\ UNCHANGED << inputVars, normalizedUrl, html, finalUrl, htmlVars, manifestVars,
                    titles, descriptions, outcome, netVars, responses, enrichVars >>

\* the result with the errors list attached unconditionally
BuildResult_alwaysErrors ==
    [url |-> finalUrl, title |-> title, titles |-> titles, descriptions |-> descriptions,
     icons |-> icons, hasErrors |-> TRUE, errors |-> errors]

\* the result naming the URL that was requested, as before redirects were tracked
BuildResult_normalizedUrl ==
    [url |-> normalizedUrl, title |-> title, titles |-> titles, descriptions |-> descriptions,
     icons |-> icons, hasErrors |-> Len(errors) > 0, errors |-> errors]

\* index.ts:183-195: the result; errors is attached only when non-empty
BuildResult ==
    [url |-> finalUrl, title |-> title, titles |-> titles, descriptions |-> descriptions,
     icons |-> icons, hasErrors |-> Len(errors) > 0, errors |-> errors]

\* index.ts:182-195
Finish ==
    /\ \/ pc = "Enriched"
       \/ pc = "Merged" /\ ~WantsMetadata
    /\ outcome' = Returned(BuildResult)
    /\ pc' = "Done"
    /\ UNCHANGED << inputVars, normalizedUrl, html, finalUrl, htmlVars, manifestVars,
                    mergeVars, errors, netVars, responses, enrichVars >>

Next ==
    \/ Start
    \/ HtmlSettles
    \/ ExtractHtml
    \/ RequestManifest
    \/ ManifestSettles
    \/ Merge
    \/ StartEnrich
    \/ \E i \in 1..Len(tasks) : IconSettles(i)
    \/ JoinEnrich
    \/ Finish

Spec == Init /\ [][Next]_vars

----------------------------------------------------------------------------
(* Two invocations of fetchFavicon running concurrently.  JavaScript runs one
   invocation at a time and passes control only at an await: the invocation
   that runs has its local variables in the variables of this module, the
   other one is parked with its local variables in a record.  What the two
   share is the state of the modules: DEFAULT_HEADERS. *)

\* the local variables of the invocation that runs
Frame ==
    [url |-> url, options |-> options, pc |-> pc, normalizedUrl |-> normalizedUrl,
     html |-> html, finalUrl |-> finalUrl, title |-> title, htmlTitles |-> htmlTitles,
     htmlDescriptions |-> htmlDescriptions, htmlIcons |-> htmlIcons,
     manifestUrl |-> manifestUrl, manifestIcons |-> manifestIcons,
     manifestTitles |-> manifestTitles, manifestDescriptions |-> manifestDescriptions,
     icons |-> icons, titles |-> titles, descriptions |-> descriptions, errors |-> errors,
     outcome |-> outcome, requests |-> requests, responses |-> responses, tasks |-> tasks,
     results |-> results, outOfOrder |-> outOfOrder]

\* the local variables of an invocation that was called and has not run yet
NewCall(u, o) ==
    [url |-> u, options |-> o, pc |-> "Start", normalizedUrl |-> EmptyText,
     html |-> NoDoc, finalUrl |-> EmptyText, title |-> NoText, htmlTitles |-> << >>,
     htmlDescriptions |-> << >>, htmlIcons |-> << >>,
     manifestUrl |-> EmptyText, manifestIcons |-> << >>,
     manifestTitles |-> << >>, manifestDescriptions |-> << >>,
     icons |-> << >>, titles |-> << >>, descriptions |-> << >>, errors |-> << >>,
     outcome |-> Pending, requests |-> << >>, responses |-> << >>, tasks |-> << >>,
     results |-> << >>, outOfOrder |-> FALSE]

\* "http://other.example/": the URL of the second call
OtherUrl == UrlText("http", "other.example", TRUE, << "" >>)

\* the options of the two calls: the first may override the User-Agent
FirstOptions == [includeMetadata : BOOLEAN, userAgent : {"", "TestBot"}]
SecondOptions == [includeMetadata : BOOLEAN, userAgent : {"", "Crawler"}]

\* what the network serves to the two calls: a page with an icon link and a
\* manifest link or an empty page, or status 404; a manifest with one icon or
\* a timeout; an image or a timeout
PairHtmlAnswers(requested) ==
    { Answer("response", 200, d, requested) :
          d \in { BareDoc(<< Link(RelIcon, UrlText("", "", TRUE, << "a.png" >>), "16x16"),
                             Link(RelManifest, UrlText("", "", TRUE, << "manifest.json" >>), "")
                          >>),
                  BareDoc(<< >>) } }
    \cup { Answer("response", 404, NoDoc, requested) }

PairManifestAnswers ==
    { Answer("response", 200,
             ManifestBody(TRUE, ManifestValue("object", Str(<< "A", "p", "p" >>), Absent, Absent,
                 IconsArray(<< Entry("object", UrlText("", "", FALSE, << "m2.png" >>),
                                     NoText, "") >>))),
             EmptyText),
      Answer("timeout", 0, NotJson, EmptyText) }

PairIconAnswers ==
    { Answer("response", 200, Image(TRUE, 16, 16, "png", 3), EmptyText),
      Answer("timeout", 0, Image(FALSE, 0, 0, "", 0), EmptyText) }

\* fetchFavicon is called twice in a row: the first call runs up to its first
\* await, the second is waiting to run
InitPair ==
    /\ url = UrlText("HTTPS", "Example.COM", TRUE, << "x", "page" >>)
    /\ options \in FirstOptions
    /\ pc = "Start"
    /\ normalizedUrl = EmptyText
    /\ html = NoDoc
    /\ finalUrl = EmptyText
    /\ title = NoText
    /\ htmlTitles = << >>
    /\ htmlDescriptions = << >>
    /\ htmlIcons = << >>
    /\ manifestUrl = EmptyText
    /\ manifestIcons = << >>
    /\ manifestTitles = << >>
    /\ manifestDescriptions = << >>
    /\ icons = << >>
    /\ titles = << >>
    /\ descriptions = << >>
    /\ errors = << >>
    /\ outcome = Pending
    /\ requests = << >>
    /\ responses = << >>
    /\ tasks = << >>
    /\ results = << >>
    /\ outOfOrder = FALSE
    /\ DEFAULT_HEADERS = BrowserHeaders
    /\ \E o \in SecondOptions : parked = << NewCall(OtherUrl, o) >>

\* the invocation that runs is at an await or has settled
AtAwait == pc \in {"AwaitHtml", "AwaitManifest", "Enriching", "Done", "Rejected"}

\* the event loop passes control: the running invocation is parked as it is and
\* a parked one that has not settled continues with its own local variables
Switch ==
    /\ AtAwait
    /\ parked # << >>
    /\ Head(parked).pc \notin {"Done", "Rejected"}
    /\ LET next == Head(parked)
       IN  /\ url' = next.url
           /\ options' = next.options
           /\ pc' = next.pc
           /\ normalizedUrl' = next.normalizedUrl
           /\ html' = next.html
           /\ finalUrl' = next.finalUrl
           /\ title' = next.title
           /\ htmlTitles' = next.htmlTitles
           /\ htmlDescriptions' = next.htmlDescriptions
           /\ htmlIcons' = next.htmlIcons
           /\ manifestUrl' = next.manifestUrl
           /\ manifestIcons' = next.manifestIcons
           /\ manifestTitles' = next.manifestTitles
           /\ manifestDescriptions' = next.manifestDescriptions
           /\ icons' = next.icons
           /\ titles' = next.titles
           /\ descriptions' = next.descriptions
           /\ errors' = next.errors
           /\ outcome' = next.outcome
           /\ requests' = next.requests
           /\ responses' = next.responses
           /\ tasks' = next.tasks
           /\ results' = next.results
           /\ outOfOrder' = next.outOfOrder
    /\ parked' = Append(Tail(parked), Frame)
    /\ UNCHANGED DEFAULT_HEADERS

PairHtmlSettles == HtmlSettlesWith(PairHtmlAnswers(normalizedUrl))
PairManifestSettles == ManifestSettlesWith(PairManifestAnswers)
PairIconSettles(i) == IconSettlesWith(i, PairIconAnswers)

NextPair ==
    \/ Start
    \/ PairHtmlSettles
    \/ ExtractHtml
    \/ RequestManifest
    \/ PairManifestSettles
    \/ Merge
    \/ StartEnrich
    \/ \E i \in 1..Len(tasks) : PairIconSettles(i)
    \/ JoinEnrich
    \/ Finish
    \/ Switch

SpecPair == InitPair /\ [][NextPair]_vars

----------------------------------------------------------------------------
(* One invocation without metadata on pages and manifests that exercise the
   extractors: every kind of <link> element, title and manifest entry. *)

RelAppleTouchIcon == << "a","p","p","l","e","-","t","o","u","c","h","-","i","c","o","n" >>

\* <link rel="icon" href="/a.png" sizes="16x16">, <link rel="Shortcut Icon" href="b.ico">,
\* <link rel="apple-touch-icon" href="/t.png" sizes="180x180">, <link rel="icon">
\* (no href), <link rel="next" href="/n">, <link href="/x.png"> (no rel)
ElemSet ==
    { Link(RelIcon, UrlText("", "", TRUE, << "a.png" >>), "16x16"),
      Link(RelShortcutIcon, UrlText("", "", FALSE, << "b.ico" >>), ""),
      Link(RelAppleTouchIcon, UrlText("", "", TRUE, << "t.png" >>), "180x180"),
      Link(RelIcon, EmptyText, ""),
      Link(RelNext, UrlText("", "", TRUE, << "n" >>), ""),
      Link(NoText, UrlText("", "", TRUE, << "x.png" >>), "") }

\* a text attribute: absent, blank, or a value with spaces around it
Texts(c) == { NoText, << " " >>, << " ", c, " " >> }

\* pages with up to MaxElems links, with and without og:image, and pages with
\* a manifest link and every combination of title, og:title, twitter:title
\* (the descriptions take the same texts in another order)
MarkupDocs ==
    { Doc(TRUE, NoText, NoText, NoText, NoText, NoText, NoText, l, og) :
          l \in SeqsUpTo(ElemSet, MaxElems),
          og \in { EmptyText, UrlText("", "", TRUE, << "og.png" >>) } }
    \cup { Doc(TRUE, t, og, tw, og, tw, t,
               << Link(RelManifest, UrlText("", "", TRUE, << "manifest.json" >>), "") >>,
               EmptyText) :
               t \in Texts("T"), og \in Texts("O"), tw \in Texts("W") }

\* {"src": "/a.png", "type": "png", "sizes": "192x192"}, {"src": "m2.png"},
\* {"type": "png"} (no src), null, 5
MarkupEntrySet ==
    { Entry("object", UrlText("", "", TRUE, << "a.png" >>), MimePng, "192x192"),
      Entry("object", UrlText("", "", FALSE, << "m2.png" >>), NoText, ""),
      Entry("object", EmptyText, MimePng, ""),
      Entry("null", EmptyText, NoText, ""),
      Entry("scalar", EmptyText, NoText, "") }

\* a field of the manifest: absent, a number, a blank string, a padded string
Fields(c) == { Absent, Num, Str(<< " " >>), Str(<< " ", c, " " >>) }

\* manifests with every combination of name and short_name (description as
\* short_name) and manifests with up to MaxEntries icons entries
MarkupManifests ==
    { ManifestValue("object", n, sn, sn, NoIcons) : n \in Fields("N"), sn \in Fields("S") }
    \cup { ManifestValue("object", Str(<< "N" >>), Absent, Absent, IconsArray(e)) :
               e \in SeqsUpTo(MarkupEntrySet, MaxEntries) }

MarkupHtmlAnswers(requested) ==
    { Answer("response", 200, d, requested) : d \in MarkupDocs }

MarkupManifestAnswers ==
    { Answer("response", 200, ManifestBody(TRUE, m), EmptyText) : m \in MarkupManifests }

InitMarkup ==
    /\ url = UrlText("HTTPS", "Example.COM", TRUE, << "x", "page" >>)
    /\ options = [includeMetadata |-> FALSE, userAgent |-> ""]
    /\ pc = "Start"
    /\ normalizedUrl = EmptyText
    /\ html = NoDoc
    /\ finalUrl = EmptyText
    /\ title = NoText
    /\ htmlTitles = << >>
    /\ htmlDescriptions = << >>
    /\ htmlIcons = << >>
    /\ manifestUrl = EmptyText
    /\ manifestIcons = << >>
    /\ manifestTitles = << >>
    /\ manifestDescriptions = << >>
    /\ icons = << >>
    /\ titles = << >>
    /\ descriptions = << >>
    /\ errors = << >>
    /\ outcome = Pending
    /\ requests = << >>
    /\ responses = << >>
    /\ tasks = << >>
    /\ results = << >>
    /\ outOfOrder = FALSE
    /\ DEFAULT_HEADERS = BrowserHeaders
    /\ parked = NoFrames

MarkupHtmlSettles == HtmlSettlesWith(MarkupHtmlAnswers(normalizedUrl))
MarkupManifestSettles == ManifestSettlesWith(MarkupManifestAnswers)

NextMarkup ==
    \/ Start
    \/ MarkupHtmlSettles
    \/ ExtractHtml
    \/ RequestManifest
    \/ MarkupManifestSettles
    \/ Merge
    \/ Finish

SpecMarkup == InitMarkup /\ [][NextMarkup]_vars

----------------------------------------------------------------------------
(* One invocation in which every request that was issued settles.  The pages
   differ in the number of icon links and in having a manifest link; the
   manifest and icon requests have all their answers, failures included. *)

\* <link rel="icon" href="/a.png" sizes="16x16">, <link rel="manifest" href="/manifest.json">
LiveLinks ==
    { Link(RelIcon, UrlText("", "", TRUE, << "a.png" >>), "16x16"),
      Link(RelManifest, UrlText("", "", TRUE, << "manifest.json" >>), "") }

LiveDocs == { BareDoc(l) : l \in SeqsUpTo(LiveLinks, MaxLinks) } \cup { UnparsableDoc }

LiveHtmlAnswers(requested) ==
    { Answer("response", 200, d, requested) : d \in LiveDocs }
    \cup { Answer("response", 404, NoDoc, requested),
           Answer("timeout", 0, NoDoc, requested),
           Answer("dns", 0, NoDoc, requested),
           Answer("network", 0, NoDoc, requested) }

LiveHtmlSettles == HtmlSettlesWith(LiveHtmlAnswers(normalizedUrl))

NextLive ==
    \/ Start
    \/ LiveHtmlSettles
    \/ ExtractHtml
    \/ RequestManifest
    \/ ManifestSettles
    \/ Merge
    \/ StartEnrich
    \/ \E i \in 1..Len(tasks) : IconSettles(i)
    \/ JoinEnrich
    \/ Finish

\* the largest number of icons one call can find
IconSlots == MaxLinks + MaxManifestIcons

\* The event loop runs every continuation that is ready (the steps between
\* awaits), and every request that was issued settles: axios resolves or
\* rejects each request at the latest when its timeout expires (fetcher.ts:37,
\* 73), whatever the other requests do.
Fairness ==
    /\ WF_vars(Start)
    /\ WF_vars(LiveHtmlSettles)
    /\ WF_vars(ExtractHtml)
    /\ WF_vars(RequestManifest)
    /\ WF_vars(ManifestSettles)
    /\ WF_vars(Merge)
    /\ WF_vars(StartEnrich)
    /\ \A i \in 1..IconSlots : WF_vars(IconSettles(i))
    /\ WF_vars(JoinEnrich)
    /\ WF_vars(Finish)

SpecLive == Init /\ [][NextLive]_vars /\ Fairness

----------------------------------------------------------------------------
(* Properties *)

\* what the log of requests and answers says, independently of the handlers
HttpOk(answer) == answer.kind = "response" /\ answer.status \in 200..399

HtmlFetchSucceeded == Len(responses) >= 1 /\ HttpOk(responses[1])

ManifestRequested == Len(requests) >= 2 /\ requests[2].kind = "manifest"
ManifestAnswered == ManifestRequested /\ Len(responses) >= 2

\* the manifest request failed: HTTP error status, timeout or network error
ManifestFetchFailed == ManifestAnswered /\ ~HttpOk(responses[2])
\* the manifest was served but is not JSON
ManifestNotJson == ManifestAnswered /\ HttpOk(responses[2]) /\ ~responses[2].body.json

HasReturned == outcome.kind = "returned"
HasRejected == outcome.kind = "rejected"

EnrichmentRan == HasReturned /\ Len(tasks) > 0

\* an icon whose request was answered with decodable bytes of known dimensions
GoodImage(answer) ==
    /\ HttpOk(answer)
    /\ answer.body.decodable
    /\ answer.body.width > 0 /\ answer.body.height > 0 /\ answer.body.format # ""

Sources(list) == { list[i].source : i \in 1..Len(list) }
Steps(list) == { list[i].step : i \in 1..Len(list) }

\* an icon without what enrichment may add
Bare(icon) == Icon(icon.url, icon.type, icon.sizes, icon.source)
BareList(list) == [i \in 1..Len(list) |-> Bare(list[i])]

\* the list handed to addMetadataToIcons
EnrichmentInput == WithFallback(MergeIcons(htmlIcons, manifestIcons), finalUrl)

\* C1: once the HTML fetch has succeeded, every returned result has a non-empty
\* icons list, whatever the extractors, the manifest step and the enrichment did.
C1_IconsNeverEmpty ==
    /\ pc \in {"Merged", "Enriching", "Enriched", "Done"} => Len(icons) > 0
    /\ HasReturned => Len(outcome.result.icons) > 0

\* C1 witness: a result returned for a page without any icon, with a failed
\* manifest request and a failed icon request: the fallback icon is there
C1_Witness ==
    /\ HasReturned
    /\ htmlIcons = << >> /\ manifestIcons = << >>
    /\ ManifestFetchFailed
    /\ Len(tasks) = 1 /\ ~GoodImage(tasks[1].answer)
    /\ Len(outcome.result.icons) = 1
    /\ outcome.result.icons[1].source = "default"

SourceRank(source) ==
    CASE source = "html" -> 1
      [] source = "manifest" -> 2
      [] source = "default" -> 3

\* C2: in every returned result the html icons come before the manifest icons,
\* which come before a default icon.
C2_SourceOrder ==
    HasReturned =>
        \A i, j \in 1..Len(outcome.result.icons) :
            i < j => SourceRank(outcome.result.icons[i].source)
                         <= SourceRank(outcome.result.icons[j].source)

\* C2 witness: an enriched result with an html icon and a manifest icon
C2_Witness ==
    /\ EnrichmentRan
    /\ Sources(outcome.result.icons) = {"html", "manifest"}
    /\ outOfOrder
    /\ \E i \in 1..Len(icons) : icons[i].hasMetadata

\* C3: the call rejects only on an invalid URL or a failed HTML fetch; once the
\* HTML fetch has succeeded it never rejects, and it can always take its next
\* step until it has returned.
C3_OnlyFatalExits ==
    /\ HasRejected <=> pc = "Rejected"
    /\ HasRejected => ~HtmlFetchSucceeded /\ Len(requests) <= 1
    /\ HtmlFetchSucceeded /\ pc # "Done" => ENABLED Next
    /\ pc = "Done" <=> HasReturned

\* C3 witness: a result returned although the manifest request and an icon
\* request timed out
C3_Witness ==
    /\ HasReturned
    /\ ManifestAnswered /\ responses[2].kind = "timeout"
    /\ \E i \in 1..Len(tasks) : tasks[i].answer.kind = "timeout"

\* an input text that is an http(s) URL
IsHttpUrl(text) ==
    /\ text.scheme \in {"http", "https", "HTTP", "HTTPS"}
    /\ text.host \in {"example.com", "Example.COM"}

\* C4: for an input that is not an http(s) URL the call rejects with the
\* invalid-URL error and never issues a network call; for a valid one the
\* first call issued is the HTML fetch of the normalized href.
C4_NoNetworkOnInvalidUrl ==
    /\ ~IsHttpUrl(url) =>
           /\ requests = << >>
           /\ pc # "Start" => HasRejected /\ outcome.message = "Invalid URL"
    /\ IsHttpUrl(url) /\ pc # "Start" =>
           /\ Len(requests) >= 1
           /\ requests[1].kind = "html"
           /\ requests[1].url
                  = UrlText(LowerName(url.scheme), LowerName(url.host), TRUE, url.segs)

\* C4 witness: the ftp URL has been rejected without any request
C4_Witness ==
    /\ url.scheme = "ftp"
    /\ HasRejected
    /\ requests = << >>

\* the page without its manifest links
WithoutManifestLink(doc) ==
    [doc EXCEPT !.links = SelectSeq(doc.links, LAMBDA e : e.rel # RelManifest)]

\* C5: when the page links a manifest and the manifest fetch fails or its body
\* is not JSON, the call returns the icons, titles and descriptions the page
\* would yield without the manifest link.
C5_ManifestFailureIsAbsence ==
    HasReturned /\ (ManifestFetchFailed \/ ManifestNotJson) =>
        LET page == WithoutManifestLink(html)
        IN  /\ BareList(outcome.result.icons)
                 = WithFallback(ValueOr(parseIconLinks(page, finalUrl), << >>), finalUrl)
            /\ outcome.result.titles = ValueOr(parseTitles(page), << >>)
            /\ outcome.result.descriptions = ValueOr(parseDescriptions(page), << >>)

\* C5 witness: a result for a page with an icon link and texts whose manifest
\* was answered with status 404 and a JSON body
C5_Witness ==
    /\ HasReturned
    /\ ManifestFetchFailed /\ responses[2].status = 404 /\ responses[2].body.json
    /\ htmlIcons # << >> /\ htmlTitles # << >>

\* C6: when the manifest fetch fails, the errors of the result contain exactly
\* one entry with step fetch_manifest, carrying the manifest URL.
C6_ManifestErrorRecorded ==
    HasReturned /\ ManifestFetchFailed =>
        /\ outcome.result.hasErrors
        /\ Cardinality({ k \in 1..Len(outcome.result.errors) :
                            outcome.result.errors[k].step = "fetch_manifest" }) = 1
        /\ \A k \in 1..Len(outcome.result.errors) :
               outcome.result.errors[k].step = "fetch_manifest"
                   => outcome.result.errors[k].url = requests[2].url

\* C7: with includeMetadata, every icon whose fetch or decode failed has an
\* entry in the errors of the result.
C7_IconFailureRecorded ==
    EnrichmentRan =>
        LET failed == { i \in 1..Len(tasks) : ~GoodImage(tasks[i].answer) }
            others == { k \in 1..Len(outcome.result.errors) :
                          outcome.result.errors[k].step \in
                              {"parse_title", "parse_titles", "parse_descriptions",
                               "parse_icon_links", "get_manifest_url", "fetch_manifest"} }
        IN  Len(outcome.result.errors) - Cardinality(others) >= Cardinality(failed)

\* C8: when the HTML extractors hit a parse exception, none propagates, each
\* contributes nothing, and an error tagged with each extractor's step name is
\* recorded.
C8_ExtractorErrorRecorded ==
    HasReturned /\ ~html.parsable =>
        /\ title = NoText /\ htmlTitles = << >> /\ htmlDescriptions = << >>
        /\ htmlIcons = << >> /\ manifestUrl = EmptyText
        /\ {"parse_title", "parse_titles", "parse_descriptions", "parse_icon_links",
            "get_manifest_url"} \subseteq Steps(outcome.result.errors)

\* C9: enrichment returns a list of the same length; an icon carries metadata
\* exactly when its own fetch and decode succeeded, with the reported width,
\* height and format and the byte length as size; any other icon is returned
\* as it was.
C9_MetadataIffOwnSuccess ==
    pc \in {"Enriched", "Done"} /\ Len(tasks) > 0 =>
        /\ Len(icons) = Len(tasks)
        /\ \A i \in 1..Len(tasks) :
               LET answer == tasks[i].answer
               IN  /\ icons[i].hasMetadata <=> GoodImage(answer)
                   /\ GoodImage(answer) =>
                          icons[i].metadata =
                              [width |-> answer.body.width, height |-> answer.body.height,
                               format |-> answer.body.format, size |-> answer.body.length]
                   /\ ~GoodImage(answer) => icons[i] = EnrichmentInput[i]

\* C9 witness: two icons, the first with bytes image-size throws on, the
\* second with a valid image
C9_Witness ==
    /\ pc = "Enriched"
    /\ Len(tasks) = 2
    /\ HttpOk(tasks[1].answer) /\ ~tasks[1].answer.body.decodable
    /\ GoodImage(tasks[2].answer)
    /\ ~icons[1].hasMetadata /\ icons[2].hasMetadata

\* C10: whatever the order in which the icon fetches complete, the enriched
\* list has at position i the url, type, sizes and source of input position i;
\* nothing of an icon changes but its metadata.
C10_OrderPreserved ==
    pc \in {"Enriched", "Done"} /\ Len(tasks) > 0 =>
        BareList(icons) = EnrichmentInput

\* C10 witness: two different icons, the fetch of the second completed before
\* that of the first, which alone got metadata
C10_Witness ==
    /\ pc = "Enriched"
    /\ Len(icons) = 2
    /\ outOfOrder
    /\ icons[1].url # icons[2].url
    /\ icons[1].hasMetadata /\ ~icons[2].hasMetadata

\* the URL a reference without scheme and host denotes on a page: a path
\* starting with "/" replaces the path of the page, any other path replaces
\* the last segment of the path of the page
OnPage(ref, page) ==
    UrlText(page.scheme, page.host, TRUE,
            IF ref.rooted THEN ref.segs ELSE Dir(page.segs) \o ref.segs)

IsRelative(ref) == ref.scheme = "" /\ ref.host = ""

\* the icons of a list that come from one source
FromSource(list, source) == SelectSeq(list, LAMBDA icon : icon.source = source)

\* the src values of the manifest that was served, in the order of its icons array
ServedSrcs ==
    IF ManifestAnswered /\ HttpOk(responses[2]) /\ responses[2].body.json
       /\ responses[2].body.value.icons.t = "array"
    THEN LET entries == SelectSeq(responses[2].body.value.icons.v,
                                  LAMBDA e : e.kind = "object" /\ Truthy(e.src))
         IN  [k \in 1..Len(entries) |-> entries[k].src]
    ELSE << >>

\* the href values of the icon links of the page, in document order
PageHrefs ==
    LET elems == SelectSeq(html.links,
                           LAMBDA e : e.rel \in {RelIcon, RelShortcutIcon} /\ Truthy(e.href))
    IN  [k \in 1..Len(elems) |-> elems[k].href]

\* C11: in every returned result a relative src of the manifest is resolved
\* against the URL of the page, not against the URL the manifest was requested
\* from, and a relative href of an icon link against the same page URL.
C11_ResolvedAgainstPage ==
    HasReturned =>
        LET page == outcome.result.url
            fromManifest == FromSource(outcome.result.icons, "manifest")
            fromLinks == SelectSeq(outcome.result.icons,
                                   LAMBDA icon : icon.source = "html" /\ icon.type # OgImageType)
        IN  /\ Len(fromManifest) <= Len(ServedSrcs)
            /\ \A k \in 1..Len(fromManifest) :
                   IsRelative(ServedSrcs[k]) => fromManifest[k].url = OnPage(ServedSrcs[k], page)
            /\ Len(fromLinks) = Len(PageHrefs)
            /\ \A k \in 1..Len(fromLinks) :
                   IsRelative(PageHrefs[k]) => fromLinks[k].url = OnPage(PageHrefs[k], page)

\* C11 witness: the page was redirected, its manifest is served from another
\* host and path, and the src "m2.png" of the manifest became an icon below the
\* directory of the page, where the manifest's own URL would give another one;
\* the link href "/a.png" is an icon on the host of the page
C11_Witness ==
    /\ HasReturned
    /\ outcome.result.url = RedirectTarget
    /\ ManifestRequested /\ requests[2].url.host = "cdn.example.net"
    /\ \E k \in 1..Len(outcome.result.icons) :
           /\ outcome.result.icons[k].source = "manifest"
           /\ outcome.result.icons[k].url
                  = UrlText("https", "www.example.org", TRUE, << "y", "m2.png" >>)
           /\ outcome.result.icons[k].url
                  # OnPage(UrlText("", "", FALSE, << "m2.png" >>), requests[2].url)
    /\ \E k \in 1..Len(outcome.result.icons) :
           /\ outcome.result.icons[k].source = "html"
           /\ outcome.result.icons[k].url
                  = UrlText("https", "www.example.org", TRUE, << "a.png" >>)

\* the page request was redirected: it was answered from another URL than the
\* one requested
Redirected ==
    HtmlFetchSucceeded /\ responses[1].finalUrl # requests[1].url

\* the URL a reference denotes on a page, for any reference of the model:
\* one with a scheme denotes itself
Denotes(ref, page) == IF IsRelative(ref) THEN OnPage(ref, page) ELSE ref

NothingFound == htmlIcons = << >> /\ manifestIcons = << >>

\* C13: when the merged list is empty the result has exactly one icon, at
\* /favicon.ico of the scheme and host of the page URL with type "default",
\* sizes "" and source "default", and a default icon appears in no other case;
\* that URL is requested only when metadata was asked for.
C13_DefaultIcon ==
    HasReturned =>
        LET page == outcome.result.url
            favicon == UrlText(page.scheme, page.host, TRUE, << "favicon.ico" >>)
        IN  /\ NothingFound =>
                   /\ Len(outcome.result.icons) = 1
                   /\ Bare(outcome.result.icons[1]) = Icon(favicon, DefaultType, "", "default")
                   /\ ~options.includeMetadata =>
                          \A k \in 1..Len(requests) : requests[k].url # favicon
            /\ ~NothingFound => "default" \notin Sources(outcome.result.icons)

\* C13 witness: the page https://example.com/x/page has no icon, metadata was
\* not asked for: the one icon is https://example.com/favicon.ico and the only
\* request is the one for the page
C13_Witness ==
    /\ HasReturned
    /\ NothingFound
    /\ ~options.includeMetadata
    /\ outcome.result.url = UrlText("https", "example.com", TRUE, << "x", "page" >>)
    /\ Len(outcome.result.icons) = 1
    /\ outcome.result.icons[1].url = UrlText("https", "example.com", TRUE, << "favicon.ico" >>)
    /\ Len(requests) = 1

\* C14: a returned result has the errors field exactly when a non-fatal error
\* was recorded during the call, and then the field is the recorded list; a
\* call without recorded error returns no errors field.
C14_ErrorsFieldIffRecorded ==
    HasReturned =>
        /\ outcome.result.hasErrors <=> errors # << >>
        /\ outcome.result.hasErrors => outcome.result.errors = errors
        /\ ~outcome.result.hasErrors => outcome.result.errors = << >>

\* C14 witness: the description extractor threw on the page, the result
\* carries the errors field with that one entry
C14_Witness ==
    /\ HasReturned
    /\ ~html.parsable
    /\ outcome.result.hasErrors
    /\ Len(outcome.result.errors) = 1
    /\ outcome.result.errors[1].step = "parse_descriptions"

Values(list) == [k \in 1..Len(list) |-> list[k].value]
Urls(list) == [k \in 1..Len(list) |-> list[k].url]

\* a sequence in which some element occurs twice
HasRepeat(seq) == \E i, j \in 1..Len(seq) : i < j /\ seq[i] = seq[j]

\* C15: the lists of a returned result are the candidates of the page, in
\* their order, followed by those of the manifest, in theirs, with nothing
\* dropped: what both sources found appears twice.
C15_PlainConcatenation ==
    HasReturned =>
        /\ outcome.result.titles = htmlTitles \o manifestTitles
        /\ outcome.result.descriptions = htmlDescriptions \o manifestDescriptions
        /\ ~NothingFound => BareList(outcome.result.icons) = htmlIcons \o manifestIcons

\* C15 witness: page and manifest both give the title "O" and the description
\* "D"; each is twice in the result, first from the page, then from the manifest
C15_Witness ==
    /\ HasReturned
    /\ HasRepeat(Values(outcome.result.titles))
    /\ HasRepeat(Values(outcome.result.descriptions))
    /\ outcome.result.descriptions[1].source = "html"
    /\ outcome.result.descriptions[Len(outcome.result.descriptions)].source = "manifest"
    /\ Sources(outcome.result.icons) = {"html", "manifest"}

\* a URL text that is absolute: it has a scheme and `new URL` accepts it
\* without a base
IsAbsoluteUrl(text) == text.scheme # "" /\ ParseAbsolute(text).ok

\* C16: every icon of every returned result has an absolute url, whatever
\* href, og:image content or manifest src it was made from.
C16_IconUrlsAbsolute ==
    HasReturned =>
        \A k \in 1..Len(outcome.result.icons) : IsAbsoluteUrl(outcome.result.icons[k].url)

\* C17: an icon of type "og:image" is in a returned result only when no other
\* icon was found: it is then the only icon, never beside manifest icons.
C17_OgImageLastResort ==
    HasReturned =>
        \A k \in 1..Len(outcome.result.icons) :
            outcome.result.icons[k].type = OgImageType =>
                /\ Len(outcome.result.icons) = 1
                /\ "manifest" \notin Sources(outcome.result.icons)

\* the cause a failed page request has, read from the answer of the network
CauseOf(answer) ==
    CASE answer.kind = "response" -> "HTTP status"
      [] answer.kind = "timeout" -> "Request timeout"
      [] answer.kind = "dns" -> "Domain not found"
      [] OTHER -> "Failed to fetch"

ResultAlone(f) ==
    LET doc == f.html
        base == f.responses[1].finalUrl
        fromPage == ValueOr(parseIconLinks(doc, base), << >>)
        link == ValueOr(getManifestUrl(doc, base), EmptyText)
        manifest == IF Truthy(link) THEN fetchManifest(f.responses[2]).value ELSE JsonNull
        fromManifest == ValueOr(extractIconsFromManifest(manifest, base), << >>)
        merged == WithFallback(MergeIcons(fromPage, fromManifest), base)
        failed == Caught(parseDescriptions(doc), "parse_descriptions", EmptyText)
    IN  [url |-> base,
         title |-> ValueOr(parseTitle(doc), NoText),
         titles |-> ValueOr(parseTitles(doc), << >>)
                        \o ValueOr(extractTitlesFromManifest(manifest), << >>),
         descriptions |-> ValueOr(parseDescriptions(doc), << >>)
                              \o ValueOr(extractDescriptionsFromManifest(manifest), << >>),
         icons |-> IF f.options.includeMetadata
                   THEN [i \in 1..Len(merged) |-> EnrichIcon(merged[i], f.tasks[i].answer)]
                   ELSE merged,
         hasErrors |-> failed # << >>,
         errors |-> failed]

\* the headers a call sends when it runs alone
HeadersAlone(f) ==
    [UserAgent |-> IF f.options.userAgent # "" THEN f.options.userAgent ELSE "Mozilla/5.0",
     Accept |-> "text/html"]

\* a call behaves as if it ran alone
AsAlone(f) ==
    /\ \A k \in 1..Len(f.requests) : f.requests[k].headers = HeadersAlone(f)
    /\ f.outcome.kind = "returned" => f.outcome.result = ResultAlone(f)
    /\ f.outcome.kind = "rejected" => f.outcome.url = f.url /\ Len(f.requests) <= 1

\* C19: two calls interleaved at their awaits each send the headers and return
\* the result and errors they would alone; the headers of the module are never
\* changed, a userAgent of one call is in the requests of that call only.
C19_CallsIndependent ==
    /\ DEFAULT_HEADERS = BrowserHeaders
    /\ AsAlone(Frame)
    /\ \A k \in 1..Len(parked) : AsAlone(parked[k])

\* C19 witness: the first call, with userAgent "TestBot", and the second,
\* without userAgent, have both returned after requesting page, manifest and
\* icons while the other was waiting; the first sent "TestBot" in each request,
\* the second the User-Agent of the module, and each has the icons of its own host
C19_Witness ==
    /\ HasReturned /\ url = OtherUrl /\ options.userAgent = ""
    /\ Len(requests) = 4
    /\ \A k \in 1..Len(requests) : requests[k].headers.UserAgent = "Mozilla/5.0"
    /\ \A k \in 1..Len(outcome.result.icons) : outcome.result.icons[k].url.host = "other.example"
    /\ Len(parked) = 1
    /\ parked[1].outcome.kind = "returned" /\ parked[1].options.userAgent = "TestBot"
    /\ Len(parked[1].requests) = 4
    /\ \A k \in 1..4 : parked[1].requests[k].headers.UserAgent = "TestBot"
    /\ \A k \in 1..Len(parked[1].outcome.result.icons) :
           parked[1].outcome.result.icons[k].url.host = "example.com"

\* the URLs of the icon requests issued so far, in order of issue
IconRequestUrls ==
    LET sent == SelectSeq(requests, LAMBDA r : r.kind = "icon")
    IN  [k \in 1..Len(sent) |-> sent[k].url]

PageExtracted == pc \notin {"Start", "AwaitHtml", "HtmlFetched", "Rejected"}

\* the rel values of the pages that contain an icon token: "icon",
\* "Shortcut Icon", "apple-touch-icon"
IconRelValues == { RelIcon, RelShortcutIcon, RelAppleTouchIcon }

\* the link elements of a page whose rel contains an icon token, in document order
IconRelElems(doc) == SelectSeq(doc.links, LAMBDA e : e.rel \in IconRelValues)

\* those of them that have a non-empty href
IconHrefElems(doc) == SelectSeq(IconRelElems(doc), LAMBDA e : Truthy(e.href))

OgImageIcons(list) == SelectSeq(list, LAMBDA icon : icon.type = OgImageType)

\* the candidates of the link elements: document order, type the raw rel
LinkCandidates(elems, page) ==
    [k \in 1..Len(elems) |->
        Icon(OnPage(elems[k].href, page), elems[k].rel, elems[k].sizes, "html")]

\* C21 as stated: on a page with og:image content, parseIconLinks emits the
\* og:image candidate if and only if the page has no link element whose rel
\* contains an icon token; otherwise it emits the link candidates only.
C21_OgImageIffNoIconRel ==
    PageExtracted /\ Truthy(html.ogImage) =>
        /\ OgImageIcons(htmlIcons) # << >> <=> IconRelElems(html) = << >>
        /\ IconRelElems(html) # << >> => OgImageIcons(htmlIcons) = << >>

\* C21 amended: parseIconLinks emits the single og:image candidate (type
\* "og:image", sizes "", source html) if and only if the page has og:image
\* content and no link element with an icon rel and a non-empty href; when
\* there is such a link, it emits exactly those links, in document order, with
\* type the raw rel, and no og:image candidate.
C21_OgImageIffNoLinkIcon ==
    PageExtracted =>
        LET elems == IconHrefElems(html)
        IN  /\ OgImageIcons(htmlIcons) # << >> <=> Truthy(html.ogImage) /\ elems = << >>
            /\ elems # << >> => htmlIcons = LinkCandidates(elems, finalUrl)
            /\ elems = << >> /\ Truthy(html.ogImage) =>
                   htmlIcons = << Icon(OnPage(html.ogImage, finalUrl), OgImageType, "", "html") >>
            /\ elems = << >> /\ ~Truthy(html.ogImage) => htmlIcons = << >>

\* C21 witness: the page has <link rel="icon"> without href, a link that is no
\* icon and og:image content: the og:image candidate is the only icon
C21_Witness ==
    /\ PageExtracted
    /\ Len(IconRelElems(html)) = 1 /\ IconHrefElems(html) = << >>
    /\ Len(html.links) = 2
    /\ Truthy(html.ogImage)
    /\ Len(htmlIcons) = 1 /\ htmlIcons[1].type = OgImageType /\ htmlIcons[1].sizes = ""

\* a text of spaces only (the empty text included)
Blank(text) == \A i \in 1..Len(text) : text[i] = " "

\* value is text without the spaces at its two ends, and is not empty
IsTrimOf(value, text) ==
    /\ value # << >>
    /\ value[1] # " " /\ value[Len(value)] # " "
    /\ \E i \in 1..Len(text) :
           /\ i + Len(value) - 1 <= Len(text)
           /\ SubSeq(text, i, i + Len(value) - 1) = value
           /\ Blank(SubSeq(text, 1, i - 1))
           /\ Blank(SubSeq(text, i + Len(value), Len(text)))

\* a text that is its own trim and not empty
Trimmed(value) == IsTrimOf(value, value)

\* the manifest the server sent, when it sent a JSON object
ServedManifest ==
    IF ManifestAnswered /\ HttpOk(responses[2]) /\ responses[2].body.json
       /\ responses[2].body.value.kind = "object"
    THEN responses[2].body.value
    ELSE ManifestValue("object", Absent, Absent, Absent, NoIcons)

\* the text of a manifest field that is a string
StringOf(field) == IF field.t = "string" THEN field.v ELSE NoText

\* the place of a title in the fixed priority order
TitleRank(entry) ==
    CASE entry.source = "html" /\ entry.property = "title" -> 1
      [] entry.source = "opengraph" /\ entry.property = "og:title" -> 2
      [] entry.source = "twitter" /\ entry.property = "twitter:title" -> 3
      [] entry.source = "manifest" /\ entry.property = "name" -> 4
      [] entry.source = "manifest" /\ entry.property = "short_name" -> 5
      [] OTHER -> 0

\* the raw value a title of that place is made from
RawTitle(rank) ==
    CASE rank = 1 -> html.title
      [] rank = 2 -> html.ogTitle
      [] rank = 3 -> html.twitterTitle
      [] rank = 4 -> StringOf(ServedManifest.name)
      [] rank = 5 -> StringOf(ServedManifest.short_name)
      [] OTHER -> NoText

\* C22: the titles of every result are in the order <title>, og:title,
\* twitter:title, manifest name, manifest short_name; each is there exactly
\* when its raw value is a text (for the manifest: a string) that is not empty
\* after trimming, and its value is the trimmed text; every value of
\* descriptions is trimmed and not empty.
C22_TitlesByPriority ==
    HasReturned =>
        LET ts == outcome.result.titles
            ds == outcome.result.descriptions
        IN  /\ \A i \in 1..Len(ts) : TitleRank(ts[i]) \in 1..5
            /\ \A i, j \in 1..Len(ts) : i < j => TitleRank(ts[i]) < TitleRank(ts[j])
            /\ \A rank \in 1..5 :
                   (\E i \in 1..Len(ts) : TitleRank(ts[i]) = rank) <=> ~Blank(RawTitle(rank))
            /\ \A i \in 1..Len(ts) : IsTrimOf(ts[i].value, RawTitle(TitleRank(ts[i])))
            /\ \A i \in 1..Len(ds) : Trimmed(ds[i].value)

\* C22 witness: page and manifest give all five titles, each with spaces
\* around it: the result has "T", "O", "W", "N", "S" in that order
C22_Witness ==
    /\ HasReturned
    /\ html.title = << " ", "T", " " >>
    /\ Values(outcome.result.titles) = << << "T" >>, << "O" >>, << "W" >>, << "N" >>, << "S" >> >>
    /\ Len(outcome.result.descriptions) = 4

\* the icons array of the manifest that was served (empty when icons is absent
\* or not an array)
ServedEntries ==
    IF ServedManifest.icons.t = "array" THEN ServedManifest.icons.v ELSE << >>

\* an entry that is an object with a non-empty src
HasSrc(entry) == entry.kind = "object" /\ entry.src # EmptyText

\* the entries with a non-empty src, in array order
EntriesWithSrc == SelectSeq(ServedEntries, HasSrc)

\* C23: the manifest icons of the result are one icon for every entry of
\* manifest.icons with a non-empty src, in array order, with the entry's type
\* or "manifest-icon", the entry's sizes or "", and source manifest, whatever
\* the other entries of the array are.
C23_OneIconPerEntry ==
    HasReturned /\ ManifestAnswered =>
        LET found == FromSource(outcome.result.icons, "manifest")
        IN  /\ Len(found) = Len(EntriesWithSrc)
            /\ \A i \in 1..Len(found) :
                   /\ found[i].url = resolveUrl(EntriesWithSrc[i].src, finalUrl)
                   /\ found[i].type = IF EntriesWithSrc[i].type # NoText
                                      THEN EntriesWithSrc[i].type ELSE ManifestIconType
                   /\ found[i].sizes = EntriesWithSrc[i].sizes

\* the manifest request was answered with a body that parses as JSON
ServedJson == ManifestAnswered /\ HttpOk(responses[2]) /\ responses[2].body.json

\* the properties of the entries of a list
Properties(list) == { list[i].property : i \in 1..Len(list) }

\* what a list of the result holds from the manifest, once there is a result
ResultFromManifest(list) == IF HasReturned THEN FromSource(list, "manifest") ELSE << >>

\* C24: a manifest body that parses as JSON to a number, string, boolean, null
\* or array gives no manifest icons, titles or descriptions; in an object, a
\* name, short_name or description that is not a string gives no candidate and
\* an icons that is not an array gives no icon; fetchFavicon does not reject
\* and no fetch_manifest error is recorded.
C24_UnexpectedShapeIsEmpty ==
    ServedJson =>
        LET served == responses[2].body.value
            foundIcons == ResultFromManifest(outcome.result.icons)
            foundTitles == ResultFromManifest(outcome.result.titles)
            foundDescriptions == ResultFromManifest(outcome.result.descriptions)
        IN  /\ ~HasRejected
            /\ "fetch_manifest" \notin Steps(errors)
            /\ HasReturned => "fetch_manifest" \notin Steps(outcome.result.errors)
            /\ served.kind # "object" =>
                   /\ manifestIcons = << >> /\ foundIcons = << >>
                   /\ manifestTitles = << >> /\ foundTitles = << >>
                   /\ manifestDescriptions = << >> /\ foundDescriptions = << >>
            /\ served.kind = "object" =>
                   /\ served.icons.t # "array" => manifestIcons = << >> /\ foundIcons = << >>
                   /\ served.name.t # "string" =>
                          "name" \notin Properties(manifestTitles) \cup Properties(foundTitles)
                   /\ served.short_name.t # "string" =>
                          "short_name" \notin Properties(manifestTitles) \cup Properties(foundTitles)
                   /\ served.description.t # "string" =>
                          /\ manifestDescriptions = << >>
                          /\ foundDescriptions = << >>

\* C24 witness: a result returned after the manifest {"name": 5,
\* "short_name": " ", "description": 5, "icons": ""} was served
C24_Witness ==
    /\ HasReturned
    /\ ServedJson
    /\ responses[2].body.value.kind = "object"
    /\ responses[2].body.value.name.t = "number"
    /\ responses[2].body.value.description.t = "number"
    /\ responses[2].body.value.icons.t = "string"
    /\ Len(outcome.result.icons) > 0

\* the icon fetches that have settled, and those still in flight
SettledTasks == { i \in 1..Len(tasks) : tasks[i].state = "settled" }
InflightTasks == { i \in 1..Len(tasks) : tasks[i].state = "inflight" }

\* C25: once addMetadataToIcons has been called, the request of every icon of
\* its input has been issued, also while no fetch has settled yet; it returns
\* (the pipeline goes on) only when every per-icon fetch has settled, and the
\* array it returns has no unfilled position.
C25_AllInFlightTogether ==
    Len(tasks) > 0 =>
        /\ Len(tasks) = Len(EnrichmentInput)
        /\ IconRequestUrls = Urls(EnrichmentInput)
        /\ pc # "Enriching" =>
               /\ InflightTasks = {}
               /\ \A k \in 1..Len(icons) : icons[k] # NoIcon

\* C25 witness: two icon requests are in flight and the second settles while
\* the first is still pending
C25_Witness ==
    /\ pc = "Enriching"
    /\ Len(IconRequestUrls) = 2
    /\ InflightTasks = {1}
    /\ SettledTasks = {2}

\* the kinds of the requests issued so far, in order of issue
RequestKinds == [k \in 1..Len(requests) |-> requests[k].kind]

\* the positions of the requests of one kind
RequestsOf(kind) == { k \in 1..Len(requests) : requests[k].kind = kind }

\* the number of requests for the page and its manifest
PageRequests == Cardinality(RequestsOf("html") \cup RequestsOf("manifest"))

\* the page that was served has a manifest link with an href
ManifestLinkLocated ==
    /\ html # NoDoc
    /\ \E k \in 1..Len(html.links) :
           /\ html.links[k].rel = RelManifest
           /\ html.links[k].href # EmptyText

\* C26: the requests of one invocation are issued in the order HTML,
\* manifest, icons.  The HTML request is the first; the manifest request is
\* issued at most once, after the HTML response arrived with success and only
\* for a page with a manifest link; icon requests are issued only when the
\* manifest request (if any) has been answered and the icons have been merged
\* and the fallback applied; a result is returned only when every request has
\* settled.
C26_NetworkOrder ==
    /\ Len(requests) > 0 => RequestsOf("html") = {1}
    /\ RequestsOf("manifest") \subseteq {2}
    /\ ManifestRequested => HtmlFetchSucceeded /\ ManifestLinkLocated
    /\ \A k \in RequestsOf("icon") : k > PageRequests
    /\ RequestsOf("icon") # {} =>
           /\ Len(responses) = PageRequests
           /\ pc \in {"Enriching", "Enriched", "Done"}
           /\ IconRequestUrls = Urls(WithFallback(MergeIcons(htmlIcons, manifestIcons), finalUrl))
    /\ HasReturned =>
           /\ Len(responses) = PageRequests
           /\ Len(tasks) = Cardinality(RequestsOf("icon"))
           /\ \A i \in 1..Len(tasks) : tasks[i].state = "settled"

\* C26 witness: a result returned after an HTML request, a manifest request
\* and two icon requests, issued in that order
C26_Witness ==
    /\ HasReturned
    /\ RequestKinds = << "html", "manifest", "icon", "icon" >>
    /\ Len(responses) = 2

\* the positions of the icons of a list that have source default
DefaultIcons(list) == { k \in 1..Len(list) : list[k].source = "default" }

\* C28: a list of icons that holds an icon of source default holds nothing
\* else: no result (and no list of icons the call builds on the way) has a
\* default icon next to an html or manifest icon, or two default icons.
C28_DefaultIconAlone ==
    /\ DefaultIcons(icons) # {} => Len(icons) = 1
    /\ DefaultIcons(htmlIcons) = {} /\ DefaultIcons(manifestIcons) = {}
    /\ HasReturned =>
           (DefaultIcons(outcome.result.icons) # {} =>
                /\ Len(outcome.result.icons) = 1
                /\ Sources(outcome.result.icons) = {"default"})

\* C28 witness: a page with a manifest whose icons array is empty; the result,
\* after enrichment, is the default icon with its metadata and nothing else
C28_Witness ==
    /\ HasReturned
    /\ ManifestAnswered /\ HttpOk(responses[2])
    /\ options.includeMetadata
    /\ Len(outcome.result.icons) = 1
    /\ outcome.result.icons[1].source = "default"
    /\ outcome.result.icons[1].hasMetadata

\* C29: when every issued fetch settles, every invocation ends: it returns a
\* result or rejects, whatever the number of icons and whichever fetches fail.
C29_Terminates == <>(HasReturned \/ HasRejected)

\* C29 witness: a call that returned although both its icon fetches, one for
\* the icon of the page and one for the icon of the manifest, timed out
C29_Witness ==
    /\ HasReturned
    /\ ManifestAnswered
    /\ Len(tasks) = 2
    /\ \A i \in 1..Len(tasks) : tasks[i].answer.kind = "timeout"
    /\ Sources(outcome.result.icons) = {"html", "manifest"}

\* the positions of the entries of a list that have source html
HtmlEntries(list) == { k \in 1..Len(list) : list[k].source = "html" }

\* C30: in every result, title is non-empty exactly when titles has an entry
\* of source html; that entry is then the first of titles and its value is
\* title; for a page without non-blank <title>, title is empty and titles has
\* no entry of source html.
C30_TitleAgreesWithTitles ==
    HasReturned =>
        LET r == outcome.result
        IN  /\ (r.title # NoText) <=> (HtmlEntries(r.titles) # {})
            /\ HtmlEntries(r.titles) \subseteq {1}
            /\ HtmlEntries(r.titles) # {} =>
                   /\ r.titles[1].value = r.title
                   /\ r.titles[1].property = "title"
            /\ Blank(html.title) => r.title = NoText /\ HtmlEntries(r.titles) = {}

\* C30 witness: the page has <title> T </title>, a blank og:title and a
\* twitter:title: title is "T" and titles starts with the html entry "T"
C30_Witness ==
    /\ HasReturned
    /\ html.title = << " ", "T", " " >>
    /\ html.ogTitle = << " " >>
    /\ outcome.result.title = << "T" >>
    /\ Len(outcome.result.titles) >= 2
    /\ outcome.result.titles[1] = TitleEntry(<< "T" >>, "html", "title")
    /\ outcome.result.titles[2].source = "twitter"

====
